---- MODULE Spec2Model ----
(***************************************************************************)
(* Model of the espnet_analyzer package: the improvement calculators, the  *)
(* plateau detector, the stop suggestion and analyze_training              *)
(* (analysis.py), and the metric / duration extraction of parser.py.       *)
(*                                                                         *)
(* Python values are represented as follows.                               *)
(*   float            an exact rational <<n, d>>, d > 0, in lowest terms   *)
(*   None             the empty tuple <<>>                                 *)
(*   Optional[int]    <<>> for None, <<e>> for the integer e               *)
(*   nan (np.mean([])) the 1-tuple <<"nan">>                               *)
(*   a raised exception: the function's result carries its name in the     *)
(*                    field raised ("" when the call returns normally)     *)
(***************************************************************************)
EXTENDS Integers, Sequences, FiniteSets

VARIABLES
    pc,                       \* position in the function under execution
    epochs,                   \* list[EpochMetrics] handed to analyze_training
    metric,                   \* attribute name read with getattr
    threshold,
    consecutive_epochs,
    use_relative,
    improvements,             \* list[tuple[int, float]]
    plateaus,                 \* list[PlateauInfo]
    min_epochs,
    suggested_stop,           \* Optional[int]
    total_improvement,
    recent_improvement_rate,
    raised,                   \* name of the exception that ended the call, or ""
    text,                     \* the text handed to extract_metric / parse_time_string
    metric_name,              \* second argument of extract_metric
    ret,                      \* value returned by the parser function
    lines,                    \* the lines of the log file, in file order
    line_no,                  \* index of the line that parse_log_file reads next
    metrics                   \* the EpochMetrics that parse_log_file is filling

vars == <<pc, epochs, metric, threshold, consecutive_epochs, use_relative,
          improvements, plateaus, min_epochs, suggested_stop,
          total_improvement, recent_improvement_rate, raised,
          text, metric_name, ret, lines, line_no, metrics>>

logVars == <<lines, line_no, metrics>>

parserVars == <<text, metric_name, ret, logVars>>

----------------------------------------------------------------------------
(* Bounds of the model.                                                    *)

MaxDeltas == 4        \* longest delta sequence handed to detect_plateaus
MaxEpochNo == 3       \* epoch numbers of those delta points are 1..MaxEpochNo
MaxConsecutive == 2   \* consecutive_epochs ranges over 0..MaxConsecutive
MaxRecords == 3       \* longest record list handed to analyze_training
MaxPlateaus == 3      \* longest plateau list handed to suggest_stop_epoch
MaxTextLen == 4       \* longest text, in tokens, handed to the parser functions
MaxParts == 4         \* most fragments and section markers on one summary line
MaxLines == 3         \* most lines of a log file

----------------------------------------------------------------------------
(* Python values.                                                          *)

None == <<>>
NaN == <<"nan">>

Abs(x) == IF x < 0 THEN -x ELSE x

RECURSIVE GCD(_, _)
GCD(a, b) == IF b = 0 THEN a ELSE GCD(b, a % b)

\* the rational n/d (d # 0) in lowest terms with a positive denominator
RNorm(n, d) ==
    LET s == IF d < 0 THEN -1 ELSE 1
        g == GCD(Abs(n), Abs(d))
    IN  <<(s * n) \div g, (s * d) \div g>>

R(n) == <<n, 1>>
RAdd(a, b) == RNorm(a[1] * b[2] + b[1] * a[2], a[2] * b[2])
RSub(a, b) == RNorm(a[1] * b[2] - b[1] * a[2], a[2] * b[2])
RMul(a, b) == RNorm(a[1] * b[1], a[2] * b[2])
RLt(a, b) == a[1] * b[2] < b[1] * a[2]
RLe(a, b) == a[1] * b[2] <= b[1] * a[2]

\* Python's float division: a zero divisor raises ZeroDivisionError
PyDiv(a, b) ==
    IF b[1] = 0 THEN [raised |-> "ZeroDivisionError", value |-> None]
    ELSE [raised |-> "", value |-> RNorm(a[1] * b[2], a[2] * b[1])]

RECURSIVE RSum(_)
RSum(s) == IF s = <<>> THEN R(0) ELSE RAdd(Head(s), RSum(Tail(s)))

\* numpy.mean of a list of floats; the mean of an empty list is nan
NpMean(s) == IF s = <<>> THEN NaN ELSE PyDiv(RSum(s), R(Len(s))).value

----------------------------------------------------------------------------
(* models.py                                                               *)

\* EpochMetrics, restricted to the epoch number and two validation metrics
EpochMetrics(e, gen, mel) ==
    [epoch |-> e, valid_generator_loss |-> gen, valid_mel_loss |-> mel]

PlateauInfo(s, e, a, n) ==
    [start_epoch |-> s, end_epoch |-> e, avg_improvement |-> a,
     epochs_in_plateau |-> n]

----------------------------------------------------------------------------
(* analysis.py: compute_improvements                                       *)

\* line 29
BothPresent(prev_val, curr_val) == prev_val # None /\ curr_val # None

AbsoluteImprovementSwapped(prev_val, curr_val) == RSub(curr_val, prev_val)

\* line 30
AbsoluteImprovement(prev_val, curr_val) == RSub(prev_val, curr_val)

\* the loop of lines 25-31, from index i (1-based) to the end of the list
RECURSIVE ImprovementsFrom(_, _, _)
ImprovementsFrom(eps, m, i) ==
    IF i > Len(eps) THEN <<>>
    ELSE LET prev_val == eps[i - 1][m]
             curr_val == eps[i][m]
         IN  (IF BothPresent(prev_val, curr_val)
              THEN << <<eps[i].epoch, AbsoluteImprovement(prev_val, curr_val)>> >>
              ELSE <<>>)
             \o ImprovementsFrom(eps, m, i + 1)

compute_improvements(eps, m) ==
    [raised |-> "", value |-> ImprovementsFrom(eps, m, 2)]

----------------------------------------------------------------------------
(* analysis.py: compute_relative_improvements                              *)

RelativeGuardNoZeroTest(prev_val, curr_val) ==
    prev_val # None /\ curr_val # None

\* line 55
RelativeGuard(prev_val, curr_val) ==
    prev_val # None /\ curr_val # None /\ prev_val[1] # 0

\* line 56: (prev_val - curr_val) / prev_val * 100
RelativeImprovement(prev_val, curr_val) ==
    LET q == PyDiv(RSub(prev_val, curr_val), prev_val)
    IN  IF q.raised # "" THEN q
        ELSE [raised |-> "", value |-> RMul(q.value, R(100))]

\* the loop of lines 51-57; acc is the list built so far
RECURSIVE RelativeImprovementsFrom(_, _, _, _)
RelativeImprovementsFrom(eps, m, i, acc) ==
    IF i > Len(eps) THEN [raised |-> "", value |-> acc]
    ELSE LET prev_val == eps[i - 1][m]
             curr_val == eps[i][m]
         IN  IF RelativeGuard(prev_val, curr_val)
             THEN LET r == RelativeImprovement(prev_val, curr_val)
                  IN  IF r.raised # "" THEN [raised |-> r.raised, value |-> <<>>]
                      ELSE RelativeImprovementsFrom(eps, m, i + 1,
                               Append(acc, <<eps[i].epoch, r.value>>))
             ELSE RelativeImprovementsFrom(eps, m, i + 1, acc)

compute_relative_improvements(eps, m) ==
    RelativeImprovementsFrom(eps, m, 2, <<>>)

----------------------------------------------------------------------------
(* analysis.py: detect_plateaus                                            *)

BelowThresholdInclusive(improvement, thr) == RLe(improvement, thr)

\* line 85
BelowThreshold(improvement, thr) == RLt(improvement, thr)

ClosedEndEpochSameEpoch(epoch) == epoch

\* line 98: a run closed by the delta of `epoch` ends one epoch earlier
ClosedEndEpoch(epoch) == epoch - 1

\* lines 95 and 107
Qualifies(count, ce) == count >= ce

\* lines 79-82
ScanStart ==
    [plateaus |-> <<>>, current_plateau_start |-> None,
     consecutive_count |-> 0, plateau_improvements |-> <<>>]

\* one iteration of the loop of lines 84-104
LoopBody(st, point, thr, ce) ==
    LET epoch == point[1]
        improvement == point[2]
    IN  IF BelowThreshold(improvement, thr)
        THEN [plateaus |-> st.plateaus,
              current_plateau_start |->
                  IF st.current_plateau_start = None THEN <<epoch>>
                  ELSE st.current_plateau_start,
              consecutive_count |-> st.consecutive_count + 1,
              plateau_improvements |->
                  IF st.current_plateau_start = None THEN <<improvement>>
                  ELSE Append(st.plateau_improvements, improvement)]
        ELSE [plateaus |->
                  IF Qualifies(st.consecutive_count, ce)
                  THEN Append(st.plateaus,
                           PlateauInfo(st.current_plateau_start,
                                       ClosedEndEpoch(epoch),
                                       NpMean(st.plateau_improvements),
                                       st.consecutive_count))
                  ELSE st.plateaus,
              current_plateau_start |-> None,
              consecutive_count |-> 0,
              plateau_improvements |-> <<>>]

RECURSIVE Scan(_, _, _, _)
Scan(st, imps, thr, ce) ==
    IF imps = <<>> THEN st
    ELSE Scan(LoopBody(st, Head(imps), thr, ce), Tail(imps), thr, ce)

\* lines 106-115; improvements[-1] of an empty list raises IndexError
detect_plateaus(imps, thr, ce) ==
    LET st == Scan(ScanStart, imps, thr, ce)
    IN  IF Qualifies(st.consecutive_count, ce)
        THEN IF imps = <<>>
             THEN [raised |-> "IndexError", value |-> <<>>]
             ELSE [raised |-> "",
                   value |-> Append(st.plateaus,
                                 PlateauInfo(st.current_plateau_start,
                                             imps[Len(imps)][1],
                                             NpMean(st.plateau_improvements),
                                             st.consecutive_count))]
        ELSE [raised |-> "", value |-> st.plateaus]

----------------------------------------------------------------------------
(* analysis.py: suggest_stop_epoch                                         *)

StartsAfterMinStrict(plateau, min) == plateau.start_epoch[1] > min

\* line 140 (start_epoch is known to be an integer here)
StartsAfterMin(plateau, min) == plateau.start_epoch[1] >= min

\* lines 139-143; comparing a start_epoch of None with an int raises TypeError
RECURSIVE FirstPlateauAfter(_, _)
FirstPlateauAfter(ps, min) ==
    IF ps = <<>> THEN [raised |-> "", value |-> None]
    ELSE LET plateau == Head(ps)
         IN  IF plateau.start_epoch = None
             THEN [raised |-> "TypeError", value |-> None]
             ELSE IF StartsAfterMin(plateau, min)
                  THEN [raised |-> "", value |-> plateau.start_epoch]
                  ELSE FirstPlateauAfter(Tail(ps), min)

\* the arguments epochs and improvements are not read by the function
suggest_stop_epoch(eps, imps, ps, min) ==
    IF ps = <<>> THEN [raised |-> "", value |-> None]
    ELSE FirstPlateauAfter(ps, min)

DefaultMinEpochs == 50

----------------------------------------------------------------------------
(* analysis.py: analyze_training, lines 173-191                            *)

\* truth value of an Optional[float]: None and 0.0 are false
Truthy(v) == v # None /\ v[1] # 0

\* lines 174-182
TotalImprovement(eps, m) ==
    IF eps # <<>>
    THEN LET first_val == eps[1][m]
             last_val == eps[Len(eps)][m]
         IN  IF Truthy(first_val) /\ Truthy(last_val)
             THEN RMul(PyDiv(RSub(first_val, last_val), first_val).value, R(100))
             ELSE R(0)
    ELSE R(0)

RecentWindow == 20

\* lines 185-191
RecentImprovementRate(imps) ==
    IF Len(imps) >= RecentWindow
    THEN NpMean([i \in 1..RecentWindow |-> imps[Len(imps) - RecentWindow + i][2]])
    ELSE IF imps # <<>>
         THEN NpMean([i \in 1..Len(imps) |-> imps[i][2]])
         ELSE R(0)

----------------------------------------------------------------------------
(* parser.py: text, regular expressions, int() and float()                 *)
(*                                                                         *)
(* A text is a sequence of tokens.  A token is one character ("1", ".",    *)
(* " ", "e", "-", ",") or a word that the regular expressions of parser.py *)
(* match as a whole: a unit ("seconds" stands for `seconds?`), a filler    *)
(* word ("and"), a metric key with its equals sign ("generator_loss="),    *)
(* the key "time=", a section marker ("[train]", "[valid]"), the epoch     *)
(* marker "epoch results:" or the line terminator "\n".                    *)

DigitChars == {"0", "1", "2", "3", "4", "5", "6", "7", "8", "9"}
SpaceChars == {" "}

DigitVal(c) ==
    CASE c = "0" -> 0 [] c = "1" -> 1 [] c = "2" -> 2 [] c = "3" -> 3
      [] c = "4" -> 4 [] c = "5" -> 5 [] c = "6" -> 6 [] c = "7" -> 7
      [] c = "8" -> 8 [] c = "9" -> 9

\* the value of a string of digits read in base 10, 0 for the empty string
RECURSIVE DigitsVal(_)
DigitsVal(s) ==
    IF s = <<>> THEN 0
    ELSE 10 * DigitsVal(SubSeq(s, 1, Len(s) - 1)) + DigitVal(s[Len(s)])

\* int() of a match of \d+
PyInt(s) == DigitsVal(s)

\* the index of the last token of the longest run of tokens of class C that
\* starts at index i; i - 1 when s[i] is not in C or i is past the end
RECURSIVE RunEnd(_, _, _)
RunEnd(s, i, C) ==
    IF i <= Len(s) /\ s[i] \in C THEN RunEnd(s, i + 1, C) ELSE i - 1

RECURSIVE Pow10(_)
Pow10(k) == IF k = 0 THEN 1 ELSE 10 * Pow10(k - 1)

\* the decimal number m * 10^e as <<m, e>>, m without trailing zeros
RECURSIVE Decimal(_, _)
Decimal(m, e) ==
    IF m = 0 THEN <<0, 0>>
    ELSE IF m % 10 = 0 THEN Decimal(m \div 10, e + 1)
    ELSE <<m, e>>

\* float() of a string over [\d.e+-]: an optional sign, digits with an
\* optional point (at least one digit), an optional exponent e[sign]digits,
\* and nothing else; any other string raises ValueError.  The value is the
\* decimal number written, <<m, e>> for m * 10^e.
PyFloat(s) ==
    LET a == IF s # <<>> /\ s[1] \in {"+", "-"} THEN 2 ELSE 1
        b == RunEnd(s, a, DigitChars)
        hasPoint == b + 1 <= Len(s) /\ s[b + 1] = "."
        c == IF hasPoint THEN RunEnd(s, b + 2, DigitChars) ELSE b
        nInt == b - a + 1
        nFrac == IF hasPoint THEN c - (b + 1) ELSE 0
        hasExp == c + 1 <= Len(s) /\ s[c + 1] = "e"
        d == IF hasExp /\ c + 2 <= Len(s) /\ s[c + 2] \in {"+", "-"}
             THEN c + 3 ELSE c + 2
        f == IF hasExp THEN RunEnd(s, d, DigitChars) ELSE c
        nExp == f - d + 1
        valid == /\ nInt + nFrac >= 1
                 /\ hasExp => nExp >= 1
                 /\ f = Len(s)
        sign == IF s # <<>> /\ s[1] = "-" THEN -1 ELSE 1
        mant == DigitsVal(SubSeq(s, a, b) \o SubSeq(s, b + 2, c))
        expSign == IF hasExp /\ s[c + 2] = "-" THEN -1 ELSE 1
        exp == IF hasExp THEN expSign * DigitsVal(SubSeq(s, d, f)) ELSE 0
    IN  IF valid
        THEN [raised |-> "", value |-> Decimal(sign * mant, exp - nFrac)]
        ELSE [raised |-> "ValueError", value |-> None]

\* a float without exponent part, <<m, e>> with e <= 0, as a rational
DecimalToR(v) == RNorm(v[1], Pow10(-v[2]))

\* re.search(r'(C+)\s*unit', s).group(1), None when there is no match: the
\* leftmost run of tokens of class C followed, after any white space, by the
\* unit word
UnitSearch(s, C, unit) ==
    LET Matches(p) ==
            /\ s[p] \in C
            /\ LET r == RunEnd(s, RunEnd(s, p, C) + 1, SpaceChars)
               IN  r + 1 <= Len(s) /\ s[r + 1] = unit
        P == {p \in 1..Len(s) : Matches(p)}
    IN  IF P = {} THEN None
        ELSE LET p == CHOOSE q \in P : \A q2 \in P : q <= q2
             IN  SubSeq(s, p, RunEnd(s, p, C))

----------------------------------------------------------------------------
(* parser.py: parse_time_string                                            *)

\* lines 15-17, 20-22, 25-27, 30-32: int(group) * factor, 0 without a match
IntComponent(time_str, unit, factor) ==
    LET g == UnitSearch(time_str, DigitChars, unit)
    IN  IF g = None THEN 0 ELSE PyInt(g) * factor

\* lines 10-39; float() at line 37 is not guarded
parse_time_string(time_str) ==
    LET whole == IntComponent(time_str, "weeks", 7 * 24 * 3600)
                   + IntComponent(time_str, "days", 24 * 3600)
                   + IntComponent(time_str, "hours", 3600)
                   + IntComponent(time_str, "minutes", 60)
        g == UnitSearch(time_str, DigitChars \cup {"."}, "seconds")
    IN  IF g = None THEN [raised |-> "", value |-> R(whole)]
        ELSE LET f == PyFloat(g)
             IN  IF f.raised # ""
                 THEN [raised |-> f.raised, value |-> None]
                 ELSE [raised |-> "",
                       value |-> RAdd(R(whole), DecimalToR(f.value))]

----------------------------------------------------------------------------
(* parser.py: extract_metric                                               *)

ValueChars == DigitChars \cup {".", "e", "+", "-"}

\* the token that stands for the text `<metric_name>=`
MetricKey(name) ==
    CASE name = "generator_loss" -> "generator_loss="
      [] name = "generator_mel_loss" -> "generator_mel_loss="
      [] name = "generator_kl_loss" -> "generator_kl_loss="
      [] name = "generator_dur_loss" -> "generator_dur_loss="
      [] name = "generator_adv_loss" -> "generator_adv_loss="
      [] name = "generator_feat_match_loss" -> "generator_feat_match_loss="
      [] name = "discriminator_loss" -> "discriminator_loss="

\* lines 42-51: the first `<metric_name>=` followed by at least one character
\* of [\d.e+-]; a ValueError of float() is caught and gives None
extract_metric(txt, name) ==
    LET P == {p \in 1..(Len(txt) - 1) :
                 txt[p] = MetricKey(name) /\ txt[p + 1] \in ValueChars}
    IN  IF P = {} THEN [raised |-> "", value |-> None]
        ELSE LET p == CHOOSE q \in P : \A q2 \in P : q <= q2
                 f == PyFloat(SubSeq(txt, p + 1, RunEnd(txt, p + 1, ValueChars)))
             IN  IF f.raised = "ValueError"
                 THEN [raised |-> "", value |-> None]
                 ELSE [raised |-> f.raised, value |-> f.value]

----------------------------------------------------------------------------
(* parser.py: parse_log_file                                               *)
(*                                                                         *)
(* A line is a text that ends with the token "\n", except possibly the     *)
(* last line of the file.  The metrics of a parsed record are floats as    *)
(* PyFloat gives them, decimals <<m, e>>.                                  *)

\* line 71, epoch_pattern.search(line).group(1): the leftmost run of digits
\* that ends right before `epoch results:`, None when there is no match
EpochSearch(line) ==
    LET Matches(p) ==
            /\ line[p] \in DigitChars
            /\ LET r == RunEnd(line, p, DigitChars)
               IN  r + 1 <= Len(line) /\ line[r + 1] = "epoch results:"
        P == {p \in 1..Len(line) : Matches(p)}
    IN  IF P = {} THEN None
        ELSE LET p == CHOOSE q \in P : \A q2 \in P : q <= q2
             IN  SubSeq(line, p, RunEnd(line, p, DigitChars))

\* str.index when the marker occurs: the index of its first occurrence;
\* 0 stands for `marker not in s`
Index(s, marker) ==
    LET P == {p \in 1..Len(s) : s[p] = marker}
    IN  IF P = {} THEN 0 ELSE CHOOSE q \in P : \A q2 \in P : q <= q2

\* the training section without the cut of line 87
train_section_uncut(line) ==
    LET train_start == Index(line, "[train]")
    IN  IF train_start = 0 THEN <<>>
        ELSE SubSeq(line, train_start, Len(line))

\* lines 77-87: train_section when the sections have been split
train_section(line) ==
    LET train_start == Index(line, "[train]")
        from_train == SubSeq(line, train_start, Len(line))
        valid_start == Index(from_train, "[valid]")
    IN  IF train_start = 0 THEN <<>>
        ELSE IF valid_start = 0 THEN from_train
        ELSE SubSeq(from_train, 1, valid_start - 1)

\* lines 77-87: valid_section when the sections have been split
valid_section(line) ==
    LET train_start == Index(line, "[train]")
        from_train == SubSeq(line, train_start, Len(line))
        valid_start == Index(from_train, "[valid]")
    IN  IF train_start = 0 \/ valid_start = 0 THEN <<>>
        ELSE SubSeq(from_train, valid_start, Len(from_train))

\* lines 89-107: EpochMetrics(epoch=epoch_num) with the seven metrics of each
\* section filled in; train_time_seconds keeps its default
SectionMetrics(epoch_num, train, valid) ==
    [epoch |-> epoch_num,
     train_generator_loss |-> extract_metric(train, "generator_loss").value,
     train_mel_loss |-> extract_metric(train, "generator_mel_loss").value,
     train_kl_loss |-> extract_metric(train, "generator_kl_loss").value,
     train_dur_loss |-> extract_metric(train, "generator_dur_loss").value,
     train_adv_loss |-> extract_metric(train, "generator_adv_loss").value,
     train_feat_match_loss |->
         extract_metric(train, "generator_feat_match_loss").value,
     train_discriminator_loss |->
         extract_metric(train, "discriminator_loss").value,
     valid_generator_loss |-> extract_metric(valid, "generator_loss").value,
     valid_mel_loss |-> extract_metric(valid, "generator_mel_loss").value,
     valid_kl_loss |-> extract_metric(valid, "generator_kl_loss").value,
     valid_dur_loss |-> extract_metric(valid, "generator_dur_loss").value,
     valid_adv_loss |-> extract_metric(valid, "generator_adv_loss").value,
     valid_feat_match_loss |->
         extract_metric(valid, "generator_feat_match_loss").value,
     valid_discriminator_loss |->
         extract_metric(valid, "discriminator_loss").value,
     train_time_seconds |-> None]

\* the tokens that [\d\w\s.] matches as a whole
TimeChars ==
    DigitChars \cup {".", " ", "\n", "e", "and",
                     "weeks", "days", "hours", "minutes", "seconds"}

\* line 110, re.search(r'time=([\d\w\s.]+?)(?:,|$)', s).group(1), None when
\* there is no match: after the leftmost `time=` that allows it, the shortest
\* non-empty run of [\d\w\s.] that is followed by a comma or ends the text;
\* `$` also matches before a line terminator that ends the text
TimeSearch(s) ==
    LET GroupEnd(p) ==
            LET r == RunEnd(s, p + 1, TimeChars)
            IN  IF r = Len(s) /\ s[r] = "\n" /\ r - 1 >= p + 1 THEN r - 1
                ELSE IF r >= p + 1 /\ (r = Len(s) \/ s[r + 1] = ",") THEN r
                ELSE 0
        P == {p \in 1..Len(s) : s[p] = "time=" /\ GroupEnd(p) # 0}
    IN  IF P = {} THEN None
        ELSE LET p == CHOOSE q \in P : \A q2 \in P : q <= q2
             IN  SubSeq(s, p + 1, GroupEnd(p))

\* an element a of the sorted list stays in front of a new element x with the
\* same key only when a.epoch < x.epoch: ties would be reversed
SortsBeforeStrict(a, x) == a.epoch < x.epoch

\* line 116: sorted() is stable, an element a that came earlier stays in
\* front of a later element x with the same key
SortsBefore(a, x) == a.epoch <= x.epoch

\* s sorted by epoch, with x put behind the elements that sort before it
InsertByEpoch(s, x) ==
    LET n == Cardinality({i \in 1..Len(s) : SortsBefore(s[i], x)})
    IN  SubSeq(s, 1, n) \o <<x>> \o SubSeq(s, n + 1, Len(s))

\* line 116: sorted(epochs, key=lambda x: x.epoch)
RECURSIVE sorted(_)
sorted(s) ==
    IF s = <<>> THEN <<>>
    ELSE InsertByEpoch(sorted(SubSeq(s, 1, Len(s) - 1)), s[Len(s)])

----------------------------------------------------------------------------
(* Inputs.                                                                 *)

\* the sequences of length n over S that never decrease
NonDecreasing(S, n) ==
    {s \in [1..n -> S] : \A i \in 1..(n - 1) : s[i] <= s[i + 1]}

DeltaVals == {R(0), R(1), R(2)}
Thresholds == {R(1), R(2)}

\* delta sequences whose epochs are in ascending order, as the improvement
\* calculators produce them from a sorted record list (parser.py line 116)
DeltaSeqs ==
    UNION {{[i \in 1..n |-> <<es[i], ds[i]>>] :
               es \in NonDecreasing(1..MaxEpochNo, n), ds \in [1..n -> DeltaVals]} :
           n \in 0..MaxDeltas}

Metrics == {"valid_generator_loss", "valid_mel_loss"}
MetricVals == {None, R(0), R(1), R(2)}
RecordEpochs == {1, 50, 51}

\* record lists sorted by epoch (parser.py line 116), equal epochs allowed;
\* the metric that is not analysed has the same value on every record
RecordLists(m) ==
    UNION {{[i \in 1..n |->
                IF m = "valid_generator_loss"
                THEN EpochMetrics(es[i], vs[i], other)
                ELSE EpochMetrics(es[i], other, vs[i])] :
               es \in NonDecreasing(RecordEpochs, n), vs \in [1..n -> MetricVals],
               other \in {None, R(1)}} :
           n \in 0..MaxRecords}

PlateauStarts == {20, 49, 50, 60}
PlateauLengths == {1, 40}

\* plateau lists in any order, as a caller of suggest_stop_epoch may pass them
PlateauLists ==
    UNION {[1..n -> {PlateauInfo(<<s>>, s + l - 1, R(0), l) :
                        s \in PlateauStarts, l \in PlateauLengths}] :
           n \in 0..MaxPlateaus}

TokenSeqs(A) == UNION {[1..n -> A] : n \in 0..MaxTextLen}

\* duration phrases: every token is matched by [\d\w\s.], the class of the
\* phrase that parse_log_file cuts out after `time=` (parser.py line 110)
PhraseTokens ==
    {"1", "2", ".", " ", "and", "weeks", "days", "hours", "minutes", "seconds"}

\* segments of key=value fragments
FragmentTokens ==
    {"generator_loss=", "generator_mel_loss=", "1", "5", ".", "e", "-", ","}

MetricNames == {"generator_loss", "generator_mel_loss"}

RECURSIVE Flatten(_)
Flatten(ss) == IF ss = <<>> THEN <<>> ELSE Head(ss) \o Flatten(Tail(ss))

\* what follows the epoch marker on a summary line: section markers,
\* key=value fragments and duration fragments, in any order
LineParts ==
    {<<"[train]">>, <<"[valid]">>,
     <<"generator_loss=", "1">>, <<"generator_loss=", "2">>,
     <<"discriminator_loss=", "3">>,
     <<"time=", "4", " ", "seconds", ",">>,
     <<"time=", ".", "seconds">>}

\* epoch-summary lines of epoch 7
SummaryLines ==
    {<<"7", "epoch results:">> \o Flatten(ps) \o <<"\n">> :
        ps \in UNION {[1..n -> LineParts] : n \in 0..MaxParts}}

\* lines of a log with several epochs: noise without the marker, two
\* different summaries of epoch 1, epochs 2 and 10, a summary without line
\* terminator and a summary whose duration is not a number
LogLines ==
    {<<"e", " ", "1", "\n">>,
     <<"epoch results:", "[train]", "generator_loss=", "1", "\n">>,
     <<"1", "epoch results:", "[train]", "generator_loss=", "1", "\n">>,
     <<"1", "epoch results:", "[train]", "generator_loss=", "2", "\n">>,
     <<"2", "epoch results:", "[train]", "time=", "4", " ", "seconds">>,
     <<" ", "1", "0", "epoch results:", "\n">>,
     <<"2", "epoch results:", "[train]", "time=", ".", "seconds", "\n">>}

\* log files: one summary line, or up to MaxLines lines in any order; only
\* the last line of a file can be without line terminator
Logs ==
    {<<l>> : l \in SummaryLines}
        \cup UNION {{f \in [1..n -> LogLines] :
                        \A i \in 1..(n - 1) : f[i][Len(f[i])] = "\n"} :
                    n \in 0..MaxLines}

----------------------------------------------------------------------------
(* detect_plateaus applied to a delta sequence.                            *)

InitDetect ==
    /\ pc = "detect_plateaus"
    /\ improvements \in DeltaSeqs
    /\ threshold \in Thresholds
    /\ consecutive_epochs \in 0..MaxConsecutive
    /\ epochs = <<>>
    /\ metric = "valid_generator_loss"
    /\ use_relative = FALSE
    /\ plateaus = <<>>
    /\ min_epochs = DefaultMinEpochs
    /\ suggested_stop = None
    /\ total_improvement = R(0)
    /\ recent_improvement_rate = R(0)
    /\ raised = ""
    /\ text = <<>>
    /\ metric_name = "generator_loss"
    /\ ret = None
    /\ lines = <<>>
    /\ line_no = 1
    /\ metrics = None

DetectCall ==
    /\ pc = "detect_plateaus"
    /\ LET r == detect_plateaus(improvements, threshold, consecutive_epochs)
       IN  /\ plateaus' = r.value
           /\ raised' = r.raised
           /\ pc' = IF r.raised = "" THEN "returned" ELSE "raised"
    /\ UNCHANGED <<epochs, metric, threshold, consecutive_epochs, use_relative,
                   improvements, min_epochs, suggested_stop, total_improvement,
                   recent_improvement_rate, parserVars>>

NextDetect == DetectCall

SpecDetect == InitDetect /\ [][NextDetect]_vars

----------------------------------------------------------------------------
(* suggest_stop_epoch applied to a plateau list.                           *)

InitSuggest ==
    /\ pc = "suggest_stop_epoch"
    /\ plateaus \in PlateauLists
    /\ min_epochs \in {DefaultMinEpochs, DefaultMinEpochs + 10}
    /\ epochs = <<>>
    /\ improvements = <<>>
    /\ metric = "valid_generator_loss"
    /\ threshold = R(1)
    /\ consecutive_epochs = 1
    /\ use_relative = FALSE
    /\ suggested_stop = None
    /\ total_improvement = R(0)
    /\ recent_improvement_rate = R(0)
    /\ raised = ""
    /\ text = <<>>
    /\ metric_name = "generator_loss"
    /\ ret = None
    /\ lines = <<>>
    /\ line_no = 1
    /\ metrics = None

SuggestCall ==
    /\ pc = "suggest_stop_epoch"
    /\ LET r == suggest_stop_epoch(epochs, improvements, plateaus, min_epochs)
       IN  /\ suggested_stop' = r.value
           /\ raised' = r.raised
           /\ pc' = IF r.raised = "" THEN "returned" ELSE "raised"
    /\ UNCHANGED <<epochs, metric, threshold, consecutive_epochs, use_relative,
                   improvements, plateaus, min_epochs, total_improvement,
                   recent_improvement_rate, parserVars>>

NextSuggest == SuggestCall

SpecSuggest == InitSuggest /\ [][NextSuggest]_vars

----------------------------------------------------------------------------
(* analyze_training, one action per statement group.                       *)

InitAnalyze ==
    /\ pc = "improvements"
    /\ metric \in Metrics
    /\ epochs \in RecordLists(metric)
    /\ threshold = R(1)
    /\ consecutive_epochs \in 0..MaxConsecutive
    /\ use_relative \in BOOLEAN
    /\ improvements = <<>>
    /\ plateaus = <<>>
    /\ min_epochs = DefaultMinEpochs
    /\ suggested_stop = None
    /\ total_improvement = R(0)
    /\ recent_improvement_rate = R(0)
    /\ raised = ""
    /\ text = <<>>
    /\ metric_name = "generator_loss"
    /\ ret = None
    /\ lines = <<>>
    /\ line_no = 1
    /\ metrics = None

\* lines 165-168
AnalyzeImprovements ==
    /\ pc = "improvements"
    /\ LET r == IF use_relative
                THEN compute_relative_improvements(epochs, metric)
                ELSE compute_improvements(epochs, metric)
       IN  /\ improvements' = r.value
           /\ raised' = r.raised
           /\ pc' = IF r.raised = "" THEN "plateaus" ELSE "raised"
    /\ UNCHANGED <<epochs, metric, threshold, consecutive_epochs, use_relative,
                   plateaus, min_epochs, suggested_stop, total_improvement,
                   recent_improvement_rate, parserVars>>

\* line 170
AnalyzePlateaus ==
    /\ pc = "plateaus"
    /\ LET r == detect_plateaus(improvements, threshold, consecutive_epochs)
       IN  /\ plateaus' = r.value
           /\ raised' = r.raised
           /\ pc' = IF r.raised = "" THEN "suggested_stop" ELSE "raised"
    /\ UNCHANGED <<epochs, metric, threshold, consecutive_epochs, use_relative,
                   improvements, min_epochs, suggested_stop, total_improvement,
                   recent_improvement_rate, parserVars>>

\* line 171: min_epochs keeps its default
AnalyzeSuggestedStop ==
    /\ pc = "suggested_stop"
    /\ LET r == suggest_stop_epoch(epochs, improvements, plateaus, DefaultMinEpochs)
       IN  /\ suggested_stop' = r.value
           /\ raised' = r.raised
           /\ pc' = IF r.raised = "" THEN "total_improvement" ELSE "raised"
    /\ UNCHANGED <<epochs, metric, threshold, consecutive_epochs, use_relative,
                   improvements, plateaus, min_epochs, total_improvement,
                   recent_improvement_rate, parserVars>>

\* lines 173-182
AnalyzeTotalImprovement ==
    /\ pc = "total_improvement"
    /\ total_improvement' = TotalImprovement(epochs, metric)
    /\ pc' = "recent_improvement_rate"
    /\ UNCHANGED <<epochs, metric, threshold, consecutive_epochs, use_relative,
                   improvements, plateaus, min_epochs, suggested_stop,
                   recent_improvement_rate, raised, parserVars>>

\* lines 184-191
AnalyzeRecentRate ==
    /\ pc = "recent_improvement_rate"
    /\ recent_improvement_rate' = RecentImprovementRate(improvements)
    /\ pc' = "return"
    /\ UNCHANGED <<epochs, metric, threshold, consecutive_epochs, use_relative,
                   improvements, plateaus, min_epochs, suggested_stop,
                   total_improvement, raised, parserVars>>

\* lines 193-199: the AnalysisResult is made of the variables as they stand
AnalyzeReturn ==
    /\ pc = "return"
    /\ pc' = "returned"
    /\ UNCHANGED <<epochs, metric, threshold, consecutive_epochs, use_relative,
                   improvements, plateaus, min_epochs, suggested_stop,
                   total_improvement, recent_improvement_rate, raised, parserVars>>

NextAnalyze ==
    \/ AnalyzeImprovements
    \/ AnalyzePlateaus
    \/ AnalyzeSuggestedStop
    \/ AnalyzeTotalImprovement
    \/ AnalyzeRecentRate
    \/ AnalyzeReturn

SpecAnalyze == InitAnalyze /\ [][NextAnalyze]_vars

----------------------------------------------------------------------------
(* parse_time_string and extract_metric applied to a text.                 *)

InitParser ==
    /\ \/ /\ pc = "parse_time_string"
          /\ text \in TokenSeqs(PhraseTokens)
          /\ metric_name = "generator_loss"
       \/ /\ pc = "extract_metric"
          /\ text \in TokenSeqs(FragmentTokens)
          /\ metric_name \in MetricNames
    /\ ret = None
    /\ lines = <<>>
    /\ line_no = 1
    /\ metrics = None
    /\ raised = ""
    /\ epochs = <<>>
    /\ metric = "valid_generator_loss"
    /\ threshold = R(1)
    /\ consecutive_epochs = 1
    /\ use_relative = FALSE
    /\ improvements = <<>>
    /\ plateaus = <<>>
    /\ min_epochs = DefaultMinEpochs
    /\ suggested_stop = None
    /\ total_improvement = R(0)
    /\ recent_improvement_rate = R(0)

analysisVars ==
    <<epochs, metric, threshold, consecutive_epochs, use_relative,
      improvements, plateaus, min_epochs, suggested_stop, total_improvement,
      recent_improvement_rate>>

ParseTimeStringCall ==
    /\ pc = "parse_time_string"
    /\ LET r == parse_time_string(text)
       IN  /\ ret' = r.value
           /\ raised' = r.raised
           /\ pc' = IF r.raised = "" THEN "returned" ELSE "raised"
    /\ UNCHANGED <<text, metric_name, logVars, analysisVars>>

ExtractMetricCall ==
    /\ pc = "extract_metric"
    /\ LET r == extract_metric(text, metric_name)
       IN  /\ ret' = r.value
           /\ raised' = r.raised
           /\ pc' = IF r.raised = "" THEN "returned" ELSE "raised"
    /\ UNCHANGED <<text, metric_name, logVars, analysisVars>>

NextParser == ParseTimeStringCall \/ ExtractMetricCall

SpecParser == InitParser /\ [][NextParser]_vars

----------------------------------------------------------------------------
(* parse_log_file applied to the lines of a log file.                      *)

InitParseLog ==
    /\ pc = "read"
    /\ lines \in Logs
    /\ line_no = 1
    /\ epochs = <<>>
    /\ metrics = None
    /\ ret = None
    /\ raised = ""
    /\ text = <<>>
    /\ metric_name = "generator_loss"
    /\ metric = "valid_generator_loss"
    /\ threshold = R(1)
    /\ consecutive_epochs = 1
    /\ use_relative = FALSE
    /\ improvements = <<>>
    /\ plateaus = <<>>
    /\ min_epochs = DefaultMinEpochs
    /\ suggested_stop = None
    /\ total_improvement = R(0)
    /\ recent_improvement_rate = R(0)

analysisRest ==
    <<metric, threshold, consecutive_epochs, use_relative, improvements,
      plateaus, min_epochs, suggested_stop, total_improvement,
      recent_improvement_rate>>

\* lines 69-73: a line without the epoch marker is passed over
ParseLogSkip ==
    /\ pc = "read"
    /\ line_no <= Len(lines)
    /\ EpochSearch(lines[line_no]) = None
    /\ line_no' = line_no + 1
    /\ UNCHANGED <<pc, epochs, metrics, ret, raised, lines, text, metric_name,
                   analysisRest>>

\* lines 69-107: the epoch number, the two sections and their metrics
ParseLogMetrics ==
    /\ pc = "read"
    /\ line_no <= Len(lines)
    /\ EpochSearch(lines[line_no]) # None
    /\ metrics' = SectionMetrics(PyInt(EpochSearch(lines[line_no])),
                                 train_section(lines[line_no]),
                                 valid_section(lines[line_no]))
    /\ pc' = "time"
    /\ UNCHANGED <<epochs, ret, raised, lines, line_no, text, metric_name,
                   analysisRest>>

\* lines 110-112: the duration of the training section; a ValueError of
\* parse_time_string leaves parse_log_file
ParseLogTime ==
    /\ pc = "time"
    /\ LET time_match == TimeSearch(train_section(lines[line_no]))
           r == IF time_match = None THEN [raised |-> "", value |-> None]
                ELSE parse_time_string(time_match)
       IN  /\ raised' = r.raised
           /\ pc' = IF r.raised = "" THEN "append" ELSE "raised"
           /\ metrics' = IF r.raised = ""
                         THEN [metrics EXCEPT !.train_time_seconds = r.value]
                         ELSE metrics
    /\ UNCHANGED <<epochs, ret, lines, line_no, text, metric_name, analysisRest>>

\* line 114, and on to the next line
ParseLogAppend ==
    /\ pc = "append"
    /\ epochs' = Append(epochs, metrics)
    /\ line_no' = line_no + 1
    /\ pc' = "read"
    /\ UNCHANGED <<metrics, ret, raised, lines, text, metric_name, analysisRest>>

\* line 116, at the end of the file
ParseLogReturn ==
    /\ pc = "read"
    /\ line_no > Len(lines)
    /\ ret' = sorted(epochs)
    /\ pc' = "returned"
    /\ UNCHANGED <<epochs, metrics, raised, lines, line_no, text, metric_name,
                   analysisRest>>

NextParseLog ==
    \/ ParseLogSkip
    \/ ParseLogMetrics
    \/ ParseLogTime
    \/ ParseLogAppend
    \/ ParseLogReturn

SpecParseLog == InitParseLog /\ [][NextParseLog]_vars

----------------------------------------------------------------------------
(* Properties of detect_plateaus (SpecDetect).                             *)

NumDeltas == Len(improvements)
DeltaBelow(i) == RLt(improvements[i][2], threshold)

\* index ranges <<i, j>> of the maximal runs of deltas below the threshold
MaximalRuns ==
    {r \in (1..NumDeltas) \X (1..NumDeltas) :
        /\ r[1] <= r[2]
        /\ \A k \in r[1]..r[2] : DeltaBelow(k)
        /\ r[1] = 1 \/ ~DeltaBelow(r[1] - 1)
        /\ r[2] = NumDeltas \/ ~DeltaBelow(r[2] + 1)}

RunLength(r) == r[2] - r[1] + 1

QualifyingRuns == {r \in MaximalRuns : RunLength(r) >= consecutive_epochs}

\* the k-th qualifying run in the order of the sequence
QualifyingRun(k) ==
    CHOOSE r \in QualifyingRuns :
        Cardinality({q \in QualifyingRuns : q[1] < r[1]}) = k - 1

\* C1: with consecutive_epochs >= 1, detect_plateaus returns exactly one
\* descriptor per maximal run of deltas strictly below the threshold whose
\* length is at least consecutive_epochs, in order, with start_epoch the epoch
\* of the run's first delta and epochs_in_plateau the number of its deltas;
\* shorter runs give nothing.
C1_OneDescriptorPerQualifyingRun ==
    (pc # "detect_plateaus" /\ consecutive_epochs >= 1) =>
        /\ pc = "returned"
        /\ Len(plateaus) = Cardinality(QualifyingRuns)
        /\ \A k \in 1..Len(plateaus) :
              /\ plateaus[k].start_epoch = <<improvements[QualifyingRun(k)[1]][1]>>
              /\ plateaus[k].epochs_in_plateau = RunLength(QualifyingRun(k))

\* a run cut short by a delta equal to the threshold is discarded and a later
\* run of two deltas is reported
C1_Witness ==
    /\ pc = "returned"
    /\ consecutive_epochs = 2
    /\ Len(plateaus) = 1
    /\ MaximalRuns # QualifyingRuns
    /\ \E i \in 1..NumDeltas : improvements[i][2] = threshold

HasStart(p) == p.start_epoch # None

\* C2: the descriptor of a qualifying run closed by the delta of epoch e has
\* end_epoch = e - 1; a qualifying run still open at the end of the sequence
\* is emitted as the last descriptor with end_epoch the epoch of the last
\* delta.
C2_EndEpochOfRuns ==
    pc = "returned" =>
        LET real == SelectSeq(plateaus, HasStart)
        IN  /\ Len(real) = Cardinality(QualifyingRuns)
            /\ \A k \in 1..Len(real) :
                  LET r == QualifyingRun(k)
                  IN  IF r[2] < NumDeltas
                      THEN real[k].end_epoch = improvements[r[2] + 1][1] - 1
                      ELSE /\ real[k].end_epoch = improvements[NumDeltas][1]
                           /\ plateaus[Len(plateaus)] = real[k]

\* one qualifying run closed inside the sequence and one open at its end
C2_Witness ==
    /\ pc = "returned"
    /\ \E r \in QualifyingRuns : r[2] < NumDeltas
    /\ \E r \in QualifyingRuns : r[2] = NumDeltas
    /\ Len(plateaus) = 2

\* C9: detect_plateaus of an empty delta sequence returns the empty list and
\* raises nothing, whatever threshold and consecutive_epochs are.
C9_EmptyDeltasNoError ==
    (improvements = <<>> /\ pc # "detect_plateaus") =>
        pc = "returned" /\ raised = "" /\ plateaus = <<>>

----------------------------------------------------------------------------
(* Properties of suggest_stop_epoch (SpecSuggest).                         *)

StartingAfterMin ==
    {k \in 1..Len(plateaus) : plateaus[k].start_epoch[1] >= min_epochs}

\* C4: suggest_stop_epoch returns the start_epoch of the first plateau of the
\* list whose start_epoch >= min_epochs, and None when there is none.
C4_FirstPlateauAfterMin ==
    pc # "suggest_stop_epoch" =>
        /\ pc = "returned"
        /\ IF StartingAfterMin = {} THEN suggested_stop = None
           ELSE LET k == CHOOSE j \in StartingAfterMin :
                             \A i \in StartingAfterMin : j <= i
                IN  suggested_stop = plateaus[k].start_epoch

\* plateaus starting at 20 (and reaching past 50) and at 60, min_epochs 50
C4_Witness ==
    /\ pc = "returned"
    /\ min_epochs = 50
    /\ Len(plateaus) = 2
    /\ plateaus[1].start_epoch = <<20>> /\ plateaus[1].end_epoch >= 50
    /\ plateaus[2].start_epoch = <<60>>
    /\ suggested_stop = <<60>>

----------------------------------------------------------------------------
(* Properties of the improvement calculators and of analyze_training       *)
(* (SpecAnalyze).                                                          *)

NumRecords == Len(epochs)
PrevVal(i) == epochs[i - 1][metric]
CurrVal(i) == epochs[i][metric]

\* the transitions (i-1, i) whose two records both carry the metric
PresentPairs == {i \in 2..NumRecords : PrevVal(i) # None /\ CurrVal(i) # None}
NonZeroPairs == {i \in PresentPairs : PrevVal(i) # R(0)}

\* the k-th element of a set of indices
Nth(S, k) == CHOOSE i \in S : Cardinality({j \in S : j < i}) = k - 1

\* C3: every descriptor has epochs_in_plateau >= consecutive_epochs and
\* end_epoch >= start_epoch, for consecutive_epochs >= 1 and record lists
\* sorted by epoch in which an epoch number may repeat.
C3_DescriptorInvariant ==
    consecutive_epochs >= 1 =>
        \A k \in 1..Len(plateaus) :
            /\ plateaus[k].epochs_in_plateau >= consecutive_epochs
            /\ plateaus[k].start_epoch # None
            /\ plateaus[k].end_epoch >= plateaus[k].start_epoch[1]

\* C5: total_improvement is (first - last) / first * 100 when first and last
\* record both carry the metric (a last value of 0 included), and 0.0 when the
\* list is empty or either value is absent.
C5_TotalImprovement ==
    pc = "returned" =>
        LET present == /\ epochs # <<>>
                       /\ epochs[1][metric] # None
                       /\ epochs[NumRecords][metric] # None
        IN  /\ (present /\ epochs[1][metric] # R(0)) =>
                   RMul(total_improvement, epochs[1][metric]) =
                       RMul(RSub(epochs[1][metric], epochs[NumRecords][metric]),
                            R(100))
            /\ ~present => total_improvement = R(0)

\* C6: compute_relative_improvements never divides by a previous value of 0:
\* it emits, in order, one point per transition whose two values are present
\* and whose previous value is not 0, and goes on after a skipped transition.
C6_NoDivisionByZero ==
    (use_relative /\ pc # "improvements") =>
        /\ raised # "ZeroDivisionError"
        /\ Len(improvements) = Cardinality(NonZeroPairs)
        /\ \A k \in 1..Len(improvements) :
              LET i == Nth(NonZeroPairs, k)
              IN  /\ improvements[k][1] = epochs[i].epoch
                  /\ RMul(improvements[k][2], PrevVal(i)) =
                         RMul(RSub(PrevVal(i), CurrVal(i)), R(100))

\* the first transition has a previous value of 0 and the next one is emitted
C6_Witness ==
    /\ use_relative
    /\ pc = "returned"
    /\ NumRecords = 3
    /\ epochs[1][metric] = R(0)
    /\ epochs[2][metric] # None
    /\ Len(improvements) = 1
    /\ improvements[1][1] = epochs[3].epoch

\* C7: compute_improvements emits, in record order, exactly one point
\* (epoch_i, prev - curr) per pair of index-adjacent records that both carry
\* the metric, so at most len(records) - 1 points.
C7_AbsoluteImprovements ==
    (~use_relative /\ pc # "improvements") =>
        /\ Len(improvements) = Cardinality(PresentPairs)
        /\ \A k \in 1..Len(improvements) :
              LET i == Nth(PresentPairs, k)
              IN  improvements[k] =
                      <<epochs[i].epoch, RSub(PrevVal(i), CurrVal(i))>>
        /\ NumRecords >= 1 => Len(improvements) <= NumRecords - 1
        /\ NumRecords < 2 => improvements = <<>>

\* three records, the first without the metric: one transition is dropped and
\* the other gives a point with a non-zero delta
C7_Witness ==
    /\ ~use_relative
    /\ pc = "returned"
    /\ NumRecords = 3
    /\ epochs[1][metric] = None
    /\ Len(improvements) = 1
    /\ improvements[1][2] # R(0)

\* C10: with no pair of index-adjacent records both carrying the metric,
\* analyze_training completes without error with no plateau, no suggested stop
\* and a recent rate of 0.0; total_improvement is 0.0 for an empty list.
C10_EmptyCaseDefaults ==
    PresentPairs = {} =>
        /\ pc # "raised"
        /\ pc = "returned" =>
              /\ plateaus = <<>>
              /\ suggested_stop = None
              /\ recent_improvement_rate = R(0)
              /\ epochs = <<>> => total_improvement = R(0)

----------------------------------------------------------------------------
(* Properties of the parser functions (SpecParser).                        *)

\* C8: malformed fragments never raise: extract_metric returns a number or
\* None and parse_time_string returns a number of seconds, whatever the text.
C8_MalformedNeverRaises ==
    pc \notin {"parse_time_string", "extract_metric"} =>
        /\ pc = "returned"
        /\ raised = ""

----------------------------------------------------------------------------
(* Further properties of detect_plateaus (SpecDetect).                     *)

\* C13: with consecutive_epochs >= 1 the returned list is chronological and
\* non-overlapping: a descriptor ends before every later descriptor starts.
C13_ChronologicalNonOverlapping ==
    (pc = "returned" /\ consecutive_epochs >= 1) =>
        \A i \in 1..Len(plateaus) : \A j \in (i + 1)..Len(plateaus) :
            plateaus[i].end_epoch < plateaus[j].start_epoch[1]

\* two plateaus are returned
C13_Witness ==
    /\ pc = "returned"
    /\ consecutive_epochs >= 1
    /\ Len(plateaus) = 2
    /\ plateaus[1].end_epoch + 1 = plateaus[2].start_epoch[1]

StrictlyIncreasingEpochs ==
    \A i \in 1..(NumDeltas - 1) : improvements[i][1] < improvements[i + 1][1]

\* C15: for strictly increasing epochs that need not be contiguous, every
\* plateau has epochs_in_plateau = end_epoch - start_epoch + 1, the number of
\* epochs in its inclusive range.
C15_CountEqualsRange ==
    (pc = "returned" /\ consecutive_epochs >= 1 /\ StrictlyIncreasingEpochs) =>
        \A k \in 1..Len(plateaus) :
            HasStart(plateaus[k]) =>
                plateaus[k].epochs_in_plateau =
                    plateaus[k].end_epoch - plateaus[k].start_epoch[1] + 1

----------------------------------------------------------------------------
(* Composition in analyze_training (SpecAnalyze).                          *)

\* the delta sequence of the calculator that use_relative selects
SelectedDeltas ==
    IF use_relative THEN compute_relative_improvements(epochs, metric).value
    ELSE compute_improvements(epochs, metric).value

\* the plateaus of the result that start at epoch 50 or later
StartingAtFiftyOrLater ==
    {k \in 1..Len(plateaus) :
        HasStart(plateaus[k]) /\ plateaus[k].start_epoch[1] >= 50}

\* what C11 says of a result that analyze_training returns
ComposedResult ==
    pc = "returned" =>
        /\ improvements = SelectedDeltas
        /\ plateaus =
               detect_plateaus(SelectedDeltas, threshold, consecutive_epochs).value
        /\ suggested_stop =
               suggest_stop_epoch(epochs, SelectedDeltas, plateaus, 50).value
        /\ suggested_stop =
               IF StartingAtFiftyOrLater = {} THEN None
               ELSE plateaus[Nth(StartingAtFiftyOrLater, 1)].start_epoch
        /\ suggested_stop # None =>
               /\ suggested_stop[1] >= 50
               /\ \E k \in 1..Len(plateaus) :
                      plateaus[k].start_epoch = suggested_stop
        /\ (\A i \in 1..Len(SelectedDeltas) :
                ~RLt(SelectedDeltas[i][2], threshold)) =>
               plateaus = <<>> /\ suggested_stop = None

\* C11: for every record sequence and all parameters analyze_training gives
\* a result; it has the plateaus that detect_plateaus gives for the delta
\* sequence of the selected calculator and the stop that suggest_stop_epoch
\* gives for those plateaus with min_epochs = 50; a suggested stop is >= 50
\* and is the start_epoch of a plateau of the result; when every delta is
\* >= threshold there is no plateau and no suggestion.
C11_AnalyzeComposes ==
    /\ pc # "raised"
    /\ ComposedResult

----------------------------------------------------------------------------
(* Properties of parse_log_file (SpecParseLog).                            *)

HasEpochMarker(line) == EpochSearch(line) # None

EpochOfLine(line) == PyInt(EpochSearch(line))

\* the lines of the file that carry the epoch marker, in file order
SummaryLinesOfLog == SelectSeq(lines, HasEpochMarker)

\* the record that parse_log_file makes of a summary line
RecordOfLine(line) ==
    LET time_match == TimeSearch(train_section(line))
    IN  [SectionMetrics(EpochOfLine(line), train_section(line),
                        valid_section(line))
            EXCEPT !.train_time_seconds =
                IF time_match = None THEN None
                ELSE parse_time_string(time_match).value]

\* the records of s with epoch v, in the order of s
WithEpoch(s, v) ==
    LET Test(x) == x.epoch = v
    IN  SelectSeq(s, Test)

\* what C12 says of the sequence that parse_log_file returns
OrderedRecords ==
    pc = "returned" =>
        /\ Len(ret) = Len(SummaryLinesOfLog)
        /\ \A i \in 1..Len(ret) : \A j \in (i + 1)..Len(ret) :
               ret[i].epoch <= ret[j].epoch
        /\ \A v \in {EpochOfLine(SummaryLinesOfLog[k]) :
                         k \in 1..Len(SummaryLinesOfLog)} :
               LET ls == WithEpoch([k \in 1..Len(SummaryLinesOfLog) |->
                                       RecordOfLine(SummaryLinesOfLog[k])], v)
               IN  WithEpoch(ret, v) = ls

\* C12: parse_log_file returns, for every log, one record per line with the
\* epoch marker and none for the other lines (an empty sequence when no line
\* has it), ordered by epoch, records of the same epoch in file order.
C12_OneRecordPerSummaryLine ==
    /\ pc # "raised"
    /\ OrderedRecords

LogMetricNames ==
    {"generator_loss", "generator_mel_loss", "generator_kl_loss",
     "generator_dur_loss", "generator_adv_loss", "generator_feat_match_loss",
     "discriminator_loss"}

\* the field of the training side that holds the metric of a key
TrainField(name) ==
    CASE name = "generator_loss" -> "train_generator_loss"
      [] name = "generator_mel_loss" -> "train_mel_loss"
      [] name = "generator_kl_loss" -> "train_kl_loss"
      [] name = "generator_dur_loss" -> "train_dur_loss"
      [] name = "generator_adv_loss" -> "train_adv_loss"
      [] name = "generator_feat_match_loss" -> "train_feat_match_loss"
      [] name = "discriminator_loss" -> "train_discriminator_loss"

\* the field of the validation side that holds the metric of a key
ValidField(name) ==
    CASE name = "generator_loss" -> "valid_generator_loss"
      [] name = "generator_mel_loss" -> "valid_mel_loss"
      [] name = "generator_kl_loss" -> "valid_kl_loss"
      [] name = "generator_dur_loss" -> "valid_dur_loss"
      [] name = "generator_adv_loss" -> "valid_adv_loss"
      [] name = "generator_feat_match_loss" -> "valid_feat_match_loss"
      [] name = "discriminator_loss" -> "valid_discriminator_loss"

Min(S) == CHOOSE x \in S : \A y \in S : x <= y

\* C14: on every summary line, whichever of '[train]' and '[valid]' occur and
\* in whatever order, the training metrics are those of the text from the
\* first '[train]' up to, not including, a following '[valid]'; a validation
\* metric that is present is read from the text from a '[valid]' onward, and
\* all of them are read from the '[valid]' that follows '[train]' onward;
\* without '[train]' all training metrics are absent and without '[valid]'
\* all validation metrics are absent.
C14_MetricsFromOwnSection ==
    pc \in {"time", "append", "raised"} =>
        LET line == lines[line_no]
            t == Index(line, "[train]")
            V == {v \in 1..Len(line) : line[v] = "[valid]"}
            VAfter == {v \in V : t # 0 /\ v > t}
            trainText ==
                IF t = 0 THEN <<>>
                ELSE SubSeq(line, t,
                            IF VAfter = {} THEN Len(line) ELSE Min(VAfter) - 1)
        IN  \A name \in LogMetricNames :
                /\ metrics[TrainField(name)] =
                       extract_metric(trainText, name).value
                /\ metrics[ValidField(name)] # None =>
                       \E v \in V :
                           metrics[ValidField(name)] =
                               extract_metric(SubSeq(line, v, Len(line)),
                                              name).value
                /\ VAfter # {} =>
                       metrics[ValidField(name)] =
                           extract_metric(SubSeq(line, Min(VAfter), Len(line)),
                                          name).value
                /\ t = 0 => metrics[TrainField(name)] = None
                /\ V = {} => metrics[ValidField(name)] = None

\* a line with '[train]', a generator_loss fragment, '[valid]' and another
\* generator_loss fragment
C14_Witness ==
    /\ pc = "append"
    /\ Index(lines[line_no], "[train]") = 3
    /\ Index(lines[line_no], "[valid]") = 6
    /\ metrics.train_generator_loss = <<1, 0>>
    /\ metrics.valid_generator_loss = <<2, 0>>

====
